---- MODULE Spec2Model ----
(***************************************************************************)
(* The DS1977 iButton protocol decoder of src/pd.py as a state machine.    *)
(*                                                                         *)
(* A Decoder object holds the byte accumulator `bytes`, the last family    *)
(* code `family_code` and the emission interval `ss`/`es`.  The host       *)
(* delivers one event per call of Decoder.decode; each call appends zero   *)
(* or more annotations to the annotation output.  `out` holds the          *)
(* annotations put by the latest call, in order.                           *)
(*                                                                         *)
(* Python values are represented as follows: a str is a TLA+ string, a     *)
(* list is a sequence (index i of the source is index i + 1 here), None    *)
(* and a missing attribute are the number -1, which no byte, family code   *)
(* or sample number equals.                                                *)
(***************************************************************************)
EXTENDS Integers, Sequences, FiniteSets, TLC

VARIABLES
    bytes,        \* self.bytes
    family_code,  \* self.family_code
    ss,           \* self.ss
    es,           \* self.es
    out,          \* the annotations put by the latest decode call
    binout,       \* the binary records put by the latest decode call
    other,        \* a second Decoder, reset after earlier use, fed the same events
    ev,           \* the event of the latest decode call, with the accumulator length before it
    pev,          \* kind and accumulator length of the event before `ev`
    starts,       \* the start samples of the DATA events of the current transaction
    log           \* byte count and class of each annotation put in the current transaction

vars == <<bytes, family_code, ss, es, out, binout, other, ev, pev, starts, log>>

----------------------------------------------------------------------------
(* Bounds of the model.                                                    *)

\* The sample numbers of the general specification are the multiples
\* 0, Tick, ..., MaxTime * Tick.
MaxTime == 1

\* The samples between two sample numbers on offer: an event that is not
\* empty is a little longer than four samples.
Tick == 5

\* The longest transaction the general specification delivers.
MaxBytes == 13

----------------------------------------------------------------------------
(* Python values.                                                          *)

None == -1

\* The annotation classes: range(12) unpacked in this order.
ann_data == 0
ann_reset == 1
ann_rom == 2
ann_cmd == 3
ann_pwd == 4
ann_addr == 5
ann_end == 6
ann_stat == 7
ann_crc == 8
ann_succ == 9
ann_fail == 10
ann_err == 11

\* The names of the annotation classes, by class number + 1.
annotations ==
    <<"data", "reset", "rom", "cmd", "pwd", "addr", "ending", "status",
      "crc", "succ", "fail", "err">>

\* A Python tuple of annotation classes.
Tuple(items) == [is_tuple |-> TRUE, items |-> items]

\* A parenthesised expression without a comma: the value itself, no tuple.
NoTuple(item) == [is_tuple |-> FALSE, items |-> <<item>>]

\* Decoder.annotations_row: the display rows with their classes.
annotations_row ==
    <<[id |-> "bits", name |-> "Bits",
       classes |-> Tuple(<<ann_data, ann_reset, ann_rom, ann_cmd, ann_pwd, ann_addr,
                           ann_crc, ann_succ, ann_fail>>)],
      [id |-> "err", name |-> "Error", classes |-> NoTuple(ann_err)]>>

\* The binary outputs: bin_mem, bin_read, bin_full = range(3).
bin_mem == 0
bin_read == 1
bin_full == 2

\* Decoder.binary.
binary ==
    <<<<"mem_read", "Data read from memory">>,
      <<"read_pwd", "Read Access Password">>,
      <<"full_pwd", "Full Access Password">>>>

\* The dictionary of function commands.
commands_1977 ==
    [c \in {\h0f, \haa, \h99, \h69, \hc3, \hcc} |->
        CASE c = \h0f -> <<"Write Scratchpad", "WR Sc">>
          [] c = \haa -> <<"Read Scratchpad", "RD Sc">>
          [] c = \h99 -> <<"Copy Scratchpad with Password", "WR Mem">>
          [] c = \h69 -> <<"Read Memory with Password", "RD Mem">>
          [] c = \hc3 -> <<"Verify Password", "Verify Pwd">>
          [] c = \hcc -> <<"Read Version Command", "RD Ver">>]

\* a & b on non-negative integers.
RECURSIVE BitAnd(_, _)
BitAnd(a, b) ==
    IF a = 0 \/ b = 0 THEN 0
    ELSE (a % 2) * (b % 2) + 2 * BitAnd(a \div 2, b \div 2)

\* a ^ b on non-negative integers.
RECURSIVE BitXor(_, _)
BitXor(a, b) ==
    IF a = 0 THEN b
    ELSE IF b = 0 THEN a
    ELSE ((a + b) % 2) + 2 * BitXor(a \div 2, b \div 2)

\* The eight steps of crc16's inner loop on one byte.
RECURSIVE Crc16Byte(_, _, _)
Crc16Byte(crc, byte, bits) ==
    IF bits = 0 THEN crc
    ELSE Crc16Byte(IF BitAnd(BitXor(byte, crc), 1) = 1
                   THEN BitXor(crc \div 2, \ha001)
                   ELSE crc \div 2,
                   byte \div 2, bits - 1)

\* The loop of crc16 over the bytes, from the value crc.
RECURSIVE Crc16From(_, _)
Crc16From(crc, byte_array) ==
    IF byte_array = <<>> THEN crc
    ELSE Crc16From(Crc16Byte(crc, Head(byte_array), 8), Tail(byte_array))

\* crc16(byte_array): reverse polynom 0xa001, initial value 0, inverted.
crc16(byte_array) == BitXor(Crc16From(0, byte_array), \hffff)

\* a << k.
RECURSIVE ShiftLeft(_, _)
ShiftLeft(a, k) == IF k = 0 THEN a ELSE ShiftLeft(2 * a, k - 1)

\* int(a / b) for b > 0: the quotient truncated towards zero.  The source
\* divides in floating point, which is exact for the sample numbers here
\* (below 2^53).
IntDiv(a, b) == IF a >= 0 THEN a \div b ELSE -((-a) \div b)

HexDigit(n) == SubSeq("0123456789abcdef", n + 1, n + 1)

\* The hexadecimal digits of n >= 0, without leading zeros.
RECURSIVE HexStr(_)
HexStr(n) == IF n < 16 THEN HexDigit(n) ELSE HexStr(n \div 16) \o HexDigit(n % 16)

\* The decimal digits of n >= 0: '%d' % n.
RECURSIVE DecStr(_)
DecStr(n) == IF n < 10 THEN HexDigit(n) ELSE DecStr(n \div 10) \o HexDigit(n % 10)

\* Zero padding on the left to width w; a longer string is kept whole.
RECURSIVE ZeroPad(_, _)
ZeroPad(s, w) == IF Len(s) >= w THEN s ELSE ZeroPad("0" \o s, w)

\* '%02x' % n, '%04x' % n, '%016x' % n, format(n, '02x').
FormatHex(n, w) == ZeroPad(HexStr(n), w)

\* format(n, '#04x'): the prefix counts in the width.
FormatHexPrefixed(n) == "0x" \o ZeroPad(HexStr(n), 2)

\* sep.join(strs).
RECURSIVE Join(_, _)
Join(sep, strs) ==
    IF strs = <<>> THEN ""
    ELSE IF Len(strs) = 1 THEN strs[1]
    ELSE strs[1] \o sep \o Join(sep, Tail(strs))

\* list[k:], k counted from 0 as in the source.
SliceFrom(list, k) == SubSeq(list, k + 1, Len(list))

\* Mutant: a slice counted from 1, so that list[1:4] begins at list[0].
SliceOneBased(list, j, k) == SubSeq(list, j, IF k < Len(list) THEN k ELSE Len(list))

\* list[j:k].
Slice(list, j, k) == SubSeq(list, j + 1, IF k < Len(list) THEN k ELSE Len(list))

\* [format(n, '02x') for n in list].
HexList(list) == [i \in 1..Len(list) |-> FormatHex(list[i], 2)]

\* [format(n, '#04x') for n in list].
HexPrefixedList(list) == [i \in 1..Len(list) |-> FormatHexPrefixed(list[i])]

----------------------------------------------------------------------------
(* The Decoder.  An object is the record of its attributes, with the       *)
(* annotations it has put during the current call in `out` and the binary  *)
(* records it has put during the current call in `bin`.                    *)

\* Decoder.__init__ / Decoder.reset on a new object: ss and es do not exist yet.
reset ==
    [bytes |-> <<>>, family_code |-> None, ss |-> None, es |-> None, out |-> <<>>,
     bin |-> <<>>]

\* Decoder.reset on a used object: ss and es keep what the earlier run left.
resetUsed(s, e) == [reset EXCEPT !.ss = s, !.es = e]

\* Decoder.putx: one annotation over (self.ss, self.es).
putx(self, data) ==
    [self EXCEPT !.out =
        Append(@, [ss |-> self.ss, es |-> self.es, cat |-> data[1], text |-> data[2]])]

\* self.family.
family == "DS1977"

\* Mutant: the reset/presence branch without its self.bytes = [].
DecodeResetKeepsBytes(self, s, e, val) ==
    LET a == [self EXCEPT !.ss = s, !.es = e]
    IN  putx(a, <<ann_reset,
                  <<"Reset/Presence: " \o (IF val THEN "true" ELSE "false")>>>>)

\* Mutant: a reset that also forgets the family code.
DecodeResetForgetsFamily(self, s, e, val) ==
    LET a == [self EXCEPT !.ss = s, !.es = e]
        b == putx(a, <<ann_reset,
                       <<"Reset/Presence: " \o (IF val THEN "true" ELSE "false")>>>>)
    IN  [b EXCEPT !.bytes = <<>>, !.family_code = None]

\* The 'RESET/PRESENCE' branch of decode.
DecodeReset(self, s, e, val) ==
    LET a == [self EXCEPT !.ss = s, !.es = e]
        b == putx(a, <<ann_reset,
                       <<"Reset/Presence: " \o (IF val THEN "true" ELSE "false")>>>>)
    IN  [b EXCEPT !.bytes = <<>>]

\* Mutant: the family code compared with 0x73.
FamilyNoteWrongCode(code) ==
    IF code = \h73
    THEN "is 0x" \o FormatHex(code, 2) \o ", " \o family \o " detected"
    ELSE "0x" \o FormatHex(code, 2) \o " unknown"

\* The text of the family code in the ROM annotation.
FamilyNote(code) ==
    IF code = \h37
    THEN "is 0x" \o FormatHex(code, 2) \o ", " \o family \o " detected"
    ELSE "0x" \o FormatHex(code, 2) \o " unknown"

\* Mutant: the ROM branch without its self.bytes = [].
DecodeRomKeepsBytes(self, s, e, val) ==
    LET a == [self EXCEPT !.ss = s, !.es = e, !.family_code = BitAnd(val, \hff)]
        rom == "ROM: 0x" \o FormatHex(val, 16)
    IN  putx(a, <<ann_rom,
                  <<rom \o " (" \o "family code " \o FamilyNote(a.family_code) \o ")",
                    rom \o " (" \o family \o ")",
                    rom>>>>)

\* The 'ROM' branch of decode.
DecodeRom(self, s, e, val) ==
    LET a == [self EXCEPT !.ss = s, !.es = e, !.family_code = BitAnd(val, \hff)]
        rom == "ROM: 0x" \o FormatHex(val, 16)
        b == putx(a, <<ann_rom,
                       <<rom \o " (" \o "family code " \o FamilyNote(a.family_code) \o ")",
                         rom \o " (" \o family \o ")",
                         rom>>>>)
    IN  [b EXCEPT !.bytes = <<>>]

\* Mutant: the command byte without its self.ss, self.es = ss, es.
DecodeCommandKeepsInterval(self, s, e, val) ==
    IF val \notin DOMAIN commands_1977
    THEN putx(self, <<ann_err, <<"Unrecognized command: 0x" \o FormatHex(val, 2)>>>>)
    ELSE putx(self, <<ann_cmd, commands_1977[val]>>)

\* Mutant: the table lookup without its `not`.
DecodeCommandInverted(self, s, e, val) ==
    LET a == [self EXCEPT !.ss = s, !.es = e]
    IN  IF val \in DOMAIN commands_1977
        THEN putx(a, <<ann_err, <<"Unrecognized command: 0x" \o FormatHex(val, 2)>>>>)
        ELSE putx(a, <<ann_cmd, <<"", "">>>>)

\* The first byte of a transaction: the command.
DecodeCommand(self, s, e, val) ==
    LET a == [self EXCEPT !.ss = s, !.es = e]
    IN  IF val \notin DOMAIN commands_1977
        THEN putx(a, <<ann_err, <<"Unrecognized command: 0x" \o FormatHex(val, 2)>>>>)
        ELSE putx(a, <<ann_cmd, commands_1977[val]>>)

\* Mutant: the address read high byte first.
TargetAddressBigEndian(list) == ShiftLeft(list[2], 8) + list[3]

\* (self.bytes[2] << 8) + self.bytes[1].
TargetAddress(list) == ShiftLeft(list[3], 8) + list[2]

\* The address annotation of the three commands that carry one.
AddressAnn(self) ==
    <<ann_addr, <<"Target address: 0x" \o FormatHex(TargetAddress(self.bytes), 4)>>>>

\* Mutant: the data annotation counting the whole accumulator.
DataAnnCountsAll(self, cls, k) ==
    <<cls, <<"Data(" \o DecStr(Len(self.bytes)) \o "): "
             \o Join(" ", HexList(SliceFrom(self.bytes, k)))>>>>

\* The data annotation over self.bytes[k:], of class cls.
DataAnn(self, cls, k) ==
    <<cls, <<"Data(" \o DecStr(Len(self.bytes) - k) \o "): "
             \o Join(" ", HexList(SliceFrom(self.bytes, k)))>>>>

\* Mutant: Write scratchpad without its self.ss = ss at the 4th byte.
WriteScratchpadKeepsStart(self, s, e) ==
    LET n == Len(self.bytes)
        a == IF n = 2 THEN [self EXCEPT !.ss = s]
             ELSE IF n = 3 THEN putx([self EXCEPT !.es = e], AddressAnn(self))
             ELSE self
    IN  IF 4 <= n THEN putx([a EXCEPT !.es = e], DataAnn(a, ann_data, 3)) ELSE a

\* Write scratchpad (0x0f), bytes 2 and later.
WriteScratchpad(self, s, e) ==
    LET n == Len(self.bytes)
        a == IF n = 2 THEN [self EXCEPT !.ss = s]
             ELSE IF n = 3 THEN putx([self EXCEPT !.es = e], AddressAnn(self))
             ELSE IF n = 4 THEN [self EXCEPT !.ss = s]
             ELSE self
    IN  IF 4 <= n THEN putx([a EXCEPT !.es = e], DataAnn(a, ann_data, 3)) ELSE a

\* Mutant: three quarters of the interval, multiplied before the division.
StatusSplitMultipliesFirst(s, e) == s + IntDiv((e - s) * 3, 4)

\* tmp = ss + int((es-ss)/4) * 3.
StatusSplit(s, e) == s + IntDiv(e - s, 4) * 3

\* Mutant: the data status taken from the top bit alone.
StatusTextTopBit(b) == IF BitAnd(b, \h80) = 0 THEN "OK" ELSE "Err"

\* The text of the data status: both top bits clear is OK.
StatusText(b) == IF BitAnd(b, \hc0) = 0 THEN "OK" ELSE "Err"

\* Mutant: the ending offset taken from the low seven bits.
EndingStatusSevenBits(self, s, e) ==
    LET tmp == StatusSplit(s, e)
        a == putx([self EXCEPT !.ss = s, !.es = tmp],
                  <<ann_end, <<"Ending Offset: " \o DecStr(BitAnd(self.bytes[4], \h7f))>>>>)
    IN  putx([a EXCEPT !.ss = tmp, !.es = e],
             <<ann_stat, <<"Data status: " \o StatusText(self.bytes[4])>>>>)

\* The ending offset and data status byte of Read scratchpad.
EndingStatus(self, s, e) ==
    LET tmp == StatusSplit(s, e)
        a == putx([self EXCEPT !.ss = s, !.es = tmp],
                  <<ann_end, <<"Ending Offset: " \o DecStr(BitAnd(self.bytes[4], \h3f))>>>>)
    IN  putx([a EXCEPT !.ss = tmp, !.es = e],
             <<ann_stat, <<"Data status: " \o StatusText(self.bytes[4])>>>>)

\* Read scratchpad (0xaa), bytes 2 and later.
ReadScratchpad(self, s, e) ==
    LET n == Len(self.bytes)
        a == IF n = 2 THEN [self EXCEPT !.ss = s]
             ELSE IF n = 3 THEN putx([self EXCEPT !.es = e], AddressAnn(self))
             ELSE IF n = 4 THEN EndingStatus(self, s, e)
             ELSE IF n = 5 THEN [self EXCEPT !.ss = s]
             ELSE self
    IN  IF 5 <= n THEN putx([a EXCEPT !.es = e], DataAnn(a, 0, 4)) ELSE a

\* Mutant: 0x55 not taken as success.
SucceededOnlyAA(b) == b = \haa

\* 0xaa == self.bytes[-1] or 0x55 == self.bytes[-1].
Succeeded(b) == b = \haa \/ b = \h55

\* Mutant: the full access password also put on the binary output.
CopyScratchpadPutsBinary(self, s, e) ==
    LET n == Len(self.bytes)
    IN  IF n = 2 THEN [self EXCEPT !.ss = s]
        ELSE IF n = 4 THEN
            putx([self EXCEPT !.es = e],
                 <<0, <<"Authorization pattern (TA1, TA2, E/S): "
                        \o Join(", ", HexPrefixedList(Slice(self.bytes, 1, 4)))>>>>)
        ELSE IF n = 5 THEN [self EXCEPT !.ss = s]
        ELSE IF n = 12 THEN
            LET a == putx([self EXCEPT !.es = e],
                          <<ann_pwd, <<"Full Access Password: "
                                       \o Join(" ", HexList(SliceFrom(self.bytes, 4)))>>>>)
            IN  [a EXCEPT !.bin = Append(@, [ss |-> s, es |-> e, cls |-> bin_full,
                                             data |-> SliceFrom(self.bytes, 4)])]
        ELSE IF n = 13 THEN
            LET a == [self EXCEPT !.ss = s, !.es = e]
            IN  IF Succeeded(self.bytes[Len(self.bytes)])
                THEN putx(a, <<ann_succ, <<"Operation Succeeded", "Success", "S">>>>)
                ELSE putx(a, <<ann_fail, <<"Operation Failed", "Failed", "F">>>>)
        ELSE self

\* Mutant: the outcome reported on the 13th byte and on every byte after it.
CopyScratchpadRepeatsOutcome(self, s, e) ==
    LET n == Len(self.bytes)
    IN  IF n = 2 THEN [self EXCEPT !.ss = s]
        ELSE IF n = 4 THEN
            putx([self EXCEPT !.es = e],
                 <<0, <<"Authorization pattern (TA1, TA2, E/S): "
                        \o Join(", ", HexPrefixedList(Slice(self.bytes, 1, 4)))>>>>)
        ELSE IF n = 5 THEN [self EXCEPT !.ss = s]
        ELSE IF n = 12 THEN
            putx([self EXCEPT !.es = e],
                 <<ann_pwd, <<"Full Access Password: "
                              \o Join(" ", HexList(SliceFrom(self.bytes, 4)))>>>>)
        ELSE IF n >= 13 THEN
            LET a == [self EXCEPT !.ss = s, !.es = e]
            IN  IF Succeeded(self.bytes[Len(self.bytes)])
                THEN putx(a, <<ann_succ, <<"Operation Succeeded", "Success", "S">>>>)
                ELSE putx(a, <<ann_fail, <<"Operation Failed", "Failed", "F">>>>)
        ELSE self

\* Copy Scratchpad with Password (0x99), bytes 2 and later.
CopyScratchpad(self, s, e) ==
    LET n == Len(self.bytes)
    IN  IF n = 2 THEN [self EXCEPT !.ss = s]
        ELSE IF n = 4 THEN
            putx([self EXCEPT !.es = e],
                 <<0, <<"Authorization pattern (TA1, TA2, E/S): "
                        \o Join(", ", HexPrefixedList(Slice(self.bytes, 1, 4)))>>>>)
        ELSE IF n = 5 THEN [self EXCEPT !.ss = s]
        ELSE IF n = 12 THEN
            putx([self EXCEPT !.es = e],
                 <<ann_pwd, <<"Full Access Password: "
                              \o Join(" ", HexList(SliceFrom(self.bytes, 4)))>>>>)
        ELSE IF n = 13 THEN
            LET a == [self EXCEPT !.ss = s, !.es = e]
            IN  IF Succeeded(self.bytes[Len(self.bytes)])
                THEN putx(a, <<ann_succ, <<"Operation Succeeded", "Success", "S">>>>)
                ELSE putx(a, <<ann_fail, <<"Operation Failed", "Failed", "F">>>>)
        ELSE self

\* Mutant: the read access password listed from bytes[4] on.
ReadMemoryShortPassword(self, s, e) ==
    LET n == Len(self.bytes)
        a == IF n = 2 THEN [self EXCEPT !.ss = s]
             ELSE IF n = 3 THEN putx([self EXCEPT !.es = e], AddressAnn(self))
             ELSE IF n = 4 THEN [self EXCEPT !.ss = s]
             ELSE IF n = 11 THEN
                 putx([self EXCEPT !.es = e],
                      <<ann_pwd, <<"Read Access Password: "
                                   \o Join(" ", HexList(SliceFrom(self.bytes, 4)))>>>>)
             ELSE IF n = 12 THEN [self EXCEPT !.ss = s]
             ELSE self
    IN  IF 12 <= n THEN putx([a EXCEPT !.es = e], DataAnn(a, ann_data, 11)) ELSE a

\* Read Memory with Password (0x69), bytes 2 and later.
ReadMemory(self, s, e) ==
    LET n == Len(self.bytes)
        a == IF n = 2 THEN [self EXCEPT !.ss = s]
             ELSE IF n = 3 THEN putx([self EXCEPT !.es = e], AddressAnn(self))
             ELSE IF n = 4 THEN [self EXCEPT !.ss = s]
             ELSE IF n = 11 THEN
                 putx([self EXCEPT !.es = e],
                      <<ann_pwd, <<"Read Access Password: "
                                   \o Join(" ", HexList(SliceFrom(self.bytes, 3)))>>>>)
             ELSE IF n = 12 THEN [self EXCEPT !.ss = s]
             ELSE self
    IN  IF 12 <= n THEN putx([a EXCEPT !.es = e], DataAnn(a, ann_data, 11)) ELSE a

\* Mutant: the last layout taken for every opcode that has none.
DecodeDataLastLayoutForAll(self, s, e, val) ==
    LET a == [self EXCEPT !.bytes = Append(@, val)]
    IN  IF 1 = Len(a.bytes) THEN DecodeCommand(a, s, e, val)
        ELSE IF \h0f = a.bytes[1] THEN WriteScratchpad(a, s, e)
        ELSE IF \haa = a.bytes[1] THEN ReadScratchpad(a, s, e)
        ELSE IF \h99 = a.bytes[1] THEN CopyScratchpad(a, s, e)
        ELSE ReadMemory(a, s, e)

\* Mutant: every byte of a transaction without a layout looked up in the
\* command table.
DecodeDataLooksUpEveryByte(self, s, e, val) ==
    LET a == [self EXCEPT !.bytes = Append(@, val)]
    IN  IF 1 = Len(a.bytes) THEN DecodeCommand(a, s, e, val)
        ELSE IF \h0f = a.bytes[1] THEN WriteScratchpad(a, s, e)
        ELSE IF \haa = a.bytes[1] THEN ReadScratchpad(a, s, e)
        ELSE IF \h99 = a.bytes[1] THEN CopyScratchpad(a, s, e)
        ELSE IF \h69 = a.bytes[1] THEN ReadMemory(a, s, e)
        ELSE DecodeCommand(a, s, e, val)

\* The 'DATA' branch of decode.
DecodeData(self, s, e, val) ==
    LET a == [self EXCEPT !.bytes = Append(@, val)]
    IN  IF 1 = Len(a.bytes) THEN DecodeCommand(a, s, e, val)
        ELSE IF \h0f = a.bytes[1] THEN WriteScratchpad(a, s, e)
        ELSE IF \haa = a.bytes[1] THEN ReadScratchpad(a, s, e)
        ELSE IF \h99 = a.bytes[1] THEN CopyScratchpad(a, s, e)
        ELSE IF \h69 = a.bytes[1] THEN ReadMemory(a, s, e)
        ELSE a

\* Decoder.decode(ss, es, data): the object after the call, `out` and `bin`
\* holding what the call has put on the two outputs.
decode(self, s, e, data) ==
    LET code == data[1]
        val == data[2]
        a == [self EXCEPT !.out = <<>>, !.bin = <<>>]
    IN  IF code = "RESET/PRESENCE" THEN DecodeReset(a, s, e, val)
        ELSE IF code = "ROM" THEN DecodeRom(a, s, e, val)
        ELSE IF code = "DATA" THEN DecodeData(a, s, e, val)
        ELSE a

----------------------------------------------------------------------------
(* The host: it constructs the decoder and then delivers events one at a   *)
(* time, in non-decreasing time order, each with start <= end.             *)

\* The decoder under study, as an object.
Self ==
    [bytes |-> bytes, family_code |-> family_code, ss |-> ss, es |-> es, out |-> out,
     bin |-> binout]

\* The sample numbers on offer in the general specification.
Times == {Tick * k : k \in 0..MaxTime}

\* What a used decoder's ss and es may hold when it is reset.
Stale == Times \cup {None}

Init ==
    /\ bytes = reset.bytes
    /\ family_code = reset.family_code
    /\ ss = reset.ss
    /\ es = reset.es
    /\ out = reset.out
    /\ binout = reset.bin
    /\ other \in {resetUsed(s, e) : s \in Stale, e \in Stale}
    /\ ev = [kind |-> "none", ss |-> 0, es |-> 0, val |-> 0, had |-> 0,
             layout |-> None]
    /\ pev = [kind |-> "none", had |-> 0]
    /\ starts = <<>>
    /\ log = <<>>

\* The opcodes that have a field layout.
Layouts == {\h0f, \haa, \h99, \h69}

\* One call decode(s, e, data) on both decoders.
Deliver(s, e, data) ==
    LET d == decode(Self, s, e, data)
    IN  /\ bytes' = d.bytes
        /\ family_code' = d.family_code
        /\ ss' = d.ss
        /\ es' = d.es
        /\ out' = d.out
        /\ binout' = d.bin
        /\ other' = decode(other, s, e, data)
        /\ ev' = [kind |-> data[1], ss |-> s, es |-> e, val |-> data[2],
                  had |-> Len(bytes),
                  layout |-> IF bytes # <<>> /\ bytes[1] \in Layouts
                             THEN bytes[1] ELSE None]
        /\ pev' = [kind |-> ev.kind, had |-> ev.had]
        /\ starts' = IF data[1] = "DATA" THEN Append(starts, s) ELSE <<>>
        /\ log' = IF data[1] = "DATA"
                  THEN log \o [i \in 1..Len(d.out) |->
                                  [n |-> Len(d.bytes), cat |-> d.out[i].cat]]
                  ELSE <<>>

\* The intervals over the samples T that may follow the latest event.
Intervals(T) == {iv \in T \X T : ev.es <= iv[1] /\ iv[1] <= iv[2]}

\* A reset/presence event over samples of T.
ResetEvent(T) ==
    \E iv \in Intervals(T), val \in BOOLEAN :
        Deliver(iv[1], iv[2], <<"RESET/PRESENCE", val>>)

\* A ROM event over samples of T with a ROM code of R.
RomEvent(T, R) ==
    \E iv \in Intervals(T), val \in R :
        Deliver(iv[1], iv[2], <<"ROM", val>>)

\* A data byte of V over samples of T.
DataEvent(T, V) ==
    \E iv \in Intervals(T), val \in V :
        Deliver(iv[1], iv[2], <<"DATA", val>>)

----------------------------------------------------------------------------
(* The general specification: every command, transactions of up to         *)
(* MaxBytes bytes cut at any point by a boundary event, every interval     *)
(* sequence over the sample numbers Times.                                 *)

\* ROM codes with and without the DS1977 family code in the low byte.
RomVals == {\h5a000137, \h37000128}

\* The values offered as the n-th byte of a transaction: every command and
\* one unknown opcode first, two values for each of the next three bytes,
\* then one value that differs from byte to byte.
DataVals(n) ==
    IF n > MaxBytes THEN {}
    ELSE IF n = 1 THEN (DOMAIN commands_1977) \cup {\h55}
    ELSE IF n <= 4 THEN {\h10, \h20}
    ELSE {17 * (n % 16)}

Next ==
    \/ ResetEvent(Times)
    \/ RomEvent(Times, RomVals)
    \/ DataEvent(Times, DataVals(Len(bytes) + 1))

Spec == Init /\ [][Next]_vars

----------------------------------------------------------------------------
(* Narrower specifications.  Each delivers the same three kinds of event   *)
(* to the same decoder and differs only in the values it offers.           *)

\* Every byte value as the first byte of a transaction, one byte after it.
OpcodeVals(n) ==
    IF n = 1 THEN 0..255
    ELSE IF n = 2 THEN {\h10}
    ELSE {}

NextOpcode ==
    \/ ResetEvent(Times)
    \/ RomEvent(Times, RomVals)
    \/ DataEvent(Times, OpcodeVals(Len(bytes) + 1))

SpecOpcode == Init /\ [][NextOpcode]_vars

\* The samples of the Read Scratchpad example.
ExampleTimes == {0, 900, 1000, 1100}

\* Read Scratchpad transactions of four bytes around the example's bytes.
ExampleVals(n) ==
    IF n = 1 THEN {\haa}
    ELSE IF n <= 3 THEN {\h00, \h01}
    ELSE IF n = 4 THEN {\h45, \h05, \h85, \hc5}
    ELSE {}

NextExample ==
    \/ ResetEvent(ExampleTimes)
    \/ RomEvent(ExampleTimes, RomVals)
    \/ DataEvent(ExampleTimes, ExampleVals(Len(bytes) + 1))

SpecExample == Init /\ [][NextExample]_vars

\* Copy Scratchpad transactions with every byte value as the 13th byte.
CopyVals(n) ==
    IF n = 1 THEN {\h99}
    ELSE IF n <= 12 THEN {17 * (n % 16)}
    ELSE IF n = 13 THEN 0..255
    ELSE {}

NextCopy ==
    \/ ResetEvent(Times)
    \/ RomEvent(Times, RomVals)
    \/ DataEvent(Times, CopyVals(Len(bytes) + 1))

SpecCopy == Init /\ [][NextCopy]_vars

\* ROM codes with every low byte, under two settings of the higher bytes.
RomValsAll == {hi * 256 + lo : hi \in {\h37, \h5a0001}, lo \in 0..255}

\* The first ROM code of a run is any of RomValsAll, a later one is of RomVals.
RomChoice == IF family_code = None THEN RomValsAll ELSE RomVals

\* After a ROM event, one command byte.
RomDataVals(n) == IF n = 1 THEN {\h0f} ELSE {}

NextRom ==
    \/ ResetEvent(Times)
    \/ RomEvent(Times, RomChoice)
    \/ DataEvent(Times, RomDataVals(Len(bytes) + 1))

SpecRom == Init /\ [][NextRom]_vars

\* The longest event, in samples, of the status byte specification.
MaxSpan == 8

\* The sample numbers on offer for the status byte.
StatusTimes == 0..MaxSpan

\* An empty interval at the end of the latest event.
Point == {ev.es}

\* Read Scratchpad transactions with every byte value as the 4th byte.
StatusVals(n) ==
    IF n = 1 THEN {\haa}
    ELSE IF n <= 3 THEN {\h00}
    ELSE IF n = 4 THEN 0..255
    ELSE {}

\* The status byte takes any interval of StatusTimes, every other event is
\* empty.
NextStatus ==
    \/ ResetEvent(Point)
    \/ RomEvent(Point, {\h5a000137})
    \/ DataEvent(IF Len(bytes) = 3 THEN StatusTimes ELSE Point,
                 StatusVals(Len(bytes) + 1))

SpecStatus == Init /\ [][NextStatus]_vars

\* The longest transaction of the specification of all opcodes.
MaxPlain == 5

\* Every byte value as the first byte of a transaction of up to MaxPlain
\* bytes.
PlainVals(n) ==
    IF n = 1 THEN 0..255
    ELSE IF n <= MaxPlain THEN {\h10}
    ELSE {}

NextPlain ==
    \/ ResetEvent(Times)
    \/ RomEvent(Times, {\h5a000137})
    \/ DataEvent(Times, PlainVals(Len(bytes) + 1))

SpecPlain == Init /\ [][NextPlain]_vars

\* The longest transaction of the outcome specification.
MaxOutcome == 15

\* Transactions that run on after the byte that reports the outcome of
\* Copy Scratchpad.
OutcomeVals(n) ==
    IF n > MaxOutcome THEN {}
    ELSE IF n = 1 THEN (DOMAIN commands_1977) \cup {\h55}
    ELSE IF n = 13 THEN {\haa, \h55, \h00}
    ELSE {\h10}

NextOutcome ==
    \/ ResetEvent(Times)
    \/ RomEvent(Times, {\h5a000137})
    \/ DataEvent(Times, OutcomeVals(Len(bytes) + 1))

SpecOutcome == Init /\ [][NextOutcome]_vars

----------------------------------------------------------------------------
(* Properties.                                                             *)

\* The two kinds of event that end a transaction.
Boundary == {"RESET/PRESENCE", "ROM"}

\* The latest call was decode of the n-th data byte of a transaction.
DataByte(n) == ev.kind = "DATA" /\ Len(bytes) = n

\* C1: transaction isolation.  A RESET/PRESENCE or ROM event leaves the
\* accumulator empty, whatever it held, and the DATA event that follows a
\* boundary is taken as byte 1: the accumulator holds that byte alone and
\* the call puts exactly one annotation, of class cmd or err.
C1_TransactionIsolation ==
    /\ ev.kind \in Boundary => bytes = <<>>
    /\ (ev.kind = "DATA" /\ pev.kind \in Boundary) =>
          /\ bytes = <<ev.val>>
          /\ Len(out) = 1
          /\ out[1].cat \in {ann_cmd, ann_err}

\* C1 witness: a boundary cut a transaction of at least three bytes and the
\* next data byte was decoded as a command.
C1_Witness ==
    /\ ev.kind = "DATA"
    /\ pev.kind \in Boundary
    /\ pev.had >= 3
    /\ Len(out) = 1
    /\ out[1].cat = ann_cmd

\* The opcodes of the command table.
CommandTable == {\h0f, \haa, \h99, \h69, \hc3, \hcc}

\* C2: the first DATA byte of a transaction puts exactly one annotation over
\* the byte's interval: of class cmd when the byte is in the command table,
\* of class err when it is not.
C2_OpcodeClassification ==
    (ev.kind = "DATA" /\ ev.had = 0) =>
        /\ Len(out) = 1
        /\ out[1].ss = ev.ss
        /\ out[1].es = ev.es
        /\ out[1].cat = (IF ev.val \in CommandTable THEN ann_cmd ELSE ann_err)

\* C2 witness: an opcode outside the table, after a boundary, reported as an error.
C2_Witness ==
    /\ ev.kind = "DATA"
    /\ ev.had = 0
    /\ pev.kind \in Boundary
    /\ ev.val = \hff
    /\ Len(out) = 1
    /\ out[1].cat = ann_err

\* The latest call decoded the 4th byte of the Read Scratchpad example.
C3_Example ==
    /\ ev.kind = "DATA"
    /\ bytes = <<\haa, \h00, \h00, \h45>>
    /\ ev.ss = 1000
    /\ ev.es = 1100

\* C3 as stated: the example's 4th byte puts ending offset 5 over
\* (1000, 1075) and data status OK over (1075, 1100).
C3_AsStated ==
    C3_Example =>
        /\ Len(out) = 2
        /\ out[1] = [ss |-> 1000, es |-> 1075, cat |-> ann_end,
                     text |-> <<"Ending Offset: 5">>]
        /\ out[2] = [ss |-> 1075, es |-> 1100, cat |-> ann_stat,
                     text |-> <<"Data status: OK">>]

\* C3 amended: the example's 4th byte puts ending offset 5 over
\* (1000, 1075) and data status Err over (1075, 1100): bit 6 of 0x45 is set.
C3_ReadScratchpadExample ==
    C3_Example =>
        /\ Len(out) = 2
        /\ out[1] = [ss |-> 1000, es |-> 1075, cat |-> ann_end,
                     text |-> <<"Ending Offset: 5">>]
        /\ out[2] = [ss |-> 1075, es |-> 1100, cat |-> ann_stat,
                     text |-> <<"Data status: Err">>]

\* C3 witness: the example has been decoded, in a transaction that
\* follows a ROM event.
C3_Witness == C3_Example /\ Len(out) = 2 /\ family_code = \h37

\* C4: the 13th byte of a Copy Scratchpad with Password transaction puts
\* exactly one annotation, over the byte's own interval: succ when the byte
\* is 0xAA or 0x55, fail for any other value.
C4_CopyOutcome ==
    (DataByte(13) /\ bytes[1] = \h99) =>
        /\ Len(out) = 1
        /\ out[1].ss = ev.ss
        /\ out[1].es = ev.es
        /\ out[1].cat = (IF ev.val \in {\haa, \h55} THEN ann_succ ELSE ann_fail)

\* C4 witness: a 13th byte of 0x55 reported as success over an interval
\* that starts after the password's.
C4_Witness ==
    /\ DataByte(13)
    /\ bytes[1] = \h99
    /\ ev.val = \h55
    /\ out[1].cat = ann_succ
    /\ ev.ss > starts[5]

\* C5: with opcode 0x0F, 0xAA or 0x69 the 2nd byte puts nothing and the 3rd
\* byte puts exactly one annotation, of class addr, with the little-endian
\* value of bytes 2 and 3 as four hex digits, from the start of the 2nd
\* byte's event to the end of the 3rd byte's event.
C5_TargetAddress ==
    (ev.kind = "DATA" /\ Len(bytes) >= 2 /\ bytes[1] \in {\h0f, \haa, \h69}) =>
        /\ Len(bytes) = 2 => out = <<>>
        /\ Len(bytes) = 3 =>
              /\ Len(out) = 1
              /\ out[1].cat = ann_addr
              /\ out[1].text =
                    <<"Target address: 0x" \o FormatHex(bytes[3] * 256 + bytes[2], 4)>>
              /\ out[1].ss = starts[2]
              /\ out[1].es = ev.es
              /\ bytes = <<\h0f, \h10, \h20>> =>
                    out[1].text = <<"Target address: 0x2010">>

\* C5 witness: the bytes 0x0F 0x10 0x20 reported as address 0x2010 over an
\* interval that starts before the 3rd byte's own.
C5_Witness ==
    /\ DataByte(3)
    /\ bytes = <<\h0f, \h10, \h20>>
    /\ out[1].text = <<"Target address: 0x2010">>
    /\ out[1].ss = starts[2]
    /\ starts[2] < ev.ss

\* The number of bytes before the data payload, by opcode.
HeaderLen(op) == IF op = \h0f THEN 3 ELSE IF op = \haa THEN 4 ELSE 11

\* The latest call decoded a payload byte of a command that carries data.
InPayload ==
    /\ ev.kind = "DATA"
    /\ bytes # <<>>
    /\ bytes[1] \in {\h0f, \haa, \h69}
    /\ Len(bytes) >= HeaderLen(bytes[1]) + 1

\* The text of a data annotation of k bytes with its "Data(k): " removed.
PayloadText(text, k) ==
    SubSeq(text, Len("Data(" \o DecStr(k) \o "): ") + 1, Len(text))

\* Every payload byte puts exactly one data annotation: bytes[h:] with its
\* length, from the start of byte h + 1 to the end of the current event.
C6_EachByte ==
    InPayload =>
        LET h == HeaderLen(bytes[1])
            n == Len(bytes)
        IN  /\ Len(out) = 1
            /\ out[1].cat = ann_data
            /\ out[1].text =
                  <<"Data(" \o DecStr(n - h) \o "): "
                    \o Join(" ", HexList(SubSeq(bytes, h + 1, n)))>>
            /\ out[1].ss = starts[h + 1]
            /\ out[1].es = ev.es
            /\ bytes = <<\h0f, \h10, \h20, \h10, \h50>> =>
                  out[1].text = <<"Data(2): 10 50">>

\* From one payload byte to the next the data annotation keeps its start,
\* does not end earlier and lists the earlier payload followed by the new byte.
C6_NextByte ==
    (InPayload /\ ev'.kind = "DATA") =>
        LET k == Len(bytes) - HeaderLen(bytes[1])
        IN  /\ Len(out') = 1
            /\ out'[1].cat = ann_data
            /\ out'[1].ss = out[1].ss
            /\ out'[1].es >= out[1].es
            /\ out'[1].text =
                  <<"Data(" \o DecStr(k + 1) \o "): "
                    \o PayloadText(out[1].text[1], k) \o " " \o FormatHex(ev'.val, 2)>>

\* C6: growing re-emission of the payload.  With header length 3 for 0x0F,
\* 4 for 0xAA and 11 for 0x69, every byte after the header puts exactly one
\* data annotation over bytes[h:], and successive data annotations of a
\* transaction keep their start, have non-decreasing ends and grow by
\* exactly the new byte.
C6_RunningData == []C6_EachByte /\ [][C6_NextByte]_vars

\* C6 witness: the second payload byte of a Read Memory transaction, its
\* data annotation starting at byte 12 and ending later.
C6_Witness ==
    /\ InPayload
    /\ bytes[1] = \h69
    /\ Len(bytes) = 13
    /\ out[1].text = <<"Data(2): cc dd">>
    /\ out[1].ss = starts[12]
    /\ out[1].ss < out[1].es

\* str holds sub as a substring.
Contains(str, sub) ==
    \E i \in 1..(Len(str) - Len(sub) + 1) : SubSeq(str, i, i + Len(sub) - 1) = sub

\* C7: a ROM event puts exactly one rom annotation over the event's
\* interval and sets family_code to the low byte of the value; the most
\* verbose text says that DS1977 is detected exactly when the low byte is
\* 0x37, and says unknown for every other low byte.
C7_RomEvent ==
    ev.kind = "ROM" =>
        /\ Len(out) = 1
        /\ out[1].cat = ann_rom
        /\ out[1].ss = ev.ss
        /\ out[1].es = ev.es
        /\ family_code = ev.val % 256
        /\ Contains(out[1].text[1], "DS1977 detected") <=> (ev.val % 256 = \h37)
        /\ Contains(out[1].text[1], "unknown") <=> (ev.val % 256 # \h37)

\* C7 witness: a ROM code whose low byte is 0x37, after an earlier ROM event.
C7_Witness ==
    /\ ev.kind = "ROM"
    /\ pev.kind = "ROM"
    /\ ev.val = \h5a000137
    /\ family_code = \h37
    /\ out[1].text[1] = "ROM: 0x000000005a000137 (family code is 0x37, DS1977 detected)"

\* C8: determinism.  A decoder reset after earlier use, whatever interval
\* that use left in ss and es, puts the same annotations as a new decoder
\* on the same events and holds the same bytes and family code; after the
\* first event it holds the same interval too.
C8_Determinism ==
    /\ other.out = out
    /\ other.bytes = bytes
    /\ other.family_code = family_code
    /\ ev.kind # "none" => (other.ss = ss /\ other.es = es)

\* C8 witness: the first event of a run is a data byte, so that the
\* annotation's interval is the one this call has set.
C8_Witness ==
    /\ ev.kind = "DATA"
    /\ pev.kind = "none"
    /\ Len(out) = 1
    /\ out[1].ss > 0
    /\ other.out = out

\* The first byte of the field an annotation of class cat describes, when
\* put at byte n of a transaction with opcode op.
FieldFirst(op, n, cat) ==
    IF n = 1 THEN 1
    ELSE IF cat = ann_addr THEN 2
    ELSE IF cat = ann_pwd THEN (IF op = \h99 THEN 5 ELSE 4)
    ELSE IF cat = ann_data THEN
        (IF op = \h0f THEN 4 ELSE IF op = \haa THEN 5 ELSE IF op = \h99 THEN 2 ELSE 12)
    ELSE n

\* C9: every annotation has start <= end.  A boundary event's annotation
\* spans the event.  An annotation of a transaction starts at or after the
\* start of its field's first byte and ends at or before the end of the
\* current event; a field of several bytes spans exactly from its first
\* byte's start to the current event's end, and a field of one byte that is
\* not split spans exactly that byte's event.
C9_Intervals ==
    \A i \in 1..Len(out) :
        LET a == out[i]
        IN  /\ a.ss <= a.es
            /\ ev.kind \in Boundary => (a.ss = ev.ss /\ a.es = ev.es)
            /\ ev.kind = "DATA" =>
                  LET n == Len(bytes)
                      first == FieldFirst(bytes[1], n, a.cat)
                  IN  /\ starts[first] <= a.ss
                      /\ a.es <= ev.es
                      /\ first < n => (a.ss = starts[first] /\ a.es = ev.es)
                      /\ (first = n /\ a.cat \notin {ann_end, ann_stat}) =>
                            (a.ss = ev.ss /\ a.es = ev.es)

\* C9 witness: the password of a Copy Scratchpad transaction that follows
\* an earlier transaction, spanning from byte 5 to byte 12.
C9_Witness ==
    /\ DataByte(12)
    /\ bytes[1] = \h99
    /\ family_code # None
    /\ Len(out) = 1
    /\ out[1].cat = ann_pwd
    /\ out[1].ss = starts[5]
    /\ starts[2] < starts[5]
    /\ out[1].es = ev.es

\* C10: opcode stability.  A DATA event appends one byte and leaves the
\* stored bytes, bytes[0] among them, where they are; a RESET/PRESENCE or ROM
\* event empties the accumulator; nothing else shortens it.
C10_AppendOnly ==
    [][/\ ev'.kind = "DATA" =>
             /\ Len(bytes') = Len(bytes) + 1
             /\ SubSeq(bytes', 1, Len(bytes)) = bytes
             /\ bytes # <<>> => bytes'[1] = bytes[1]
       /\ ev'.kind \in Boundary => bytes' = <<>>
       /\ Len(bytes') < Len(bytes) => (ev'.kind \in Boundary /\ bytes' = <<>>)]_vars

\* C10 witness: a transaction of 13 bytes that still holds its opcode, then
\* cut by a boundary event.
C10_Witness ==
    /\ ev.kind \in Boundary
    /\ ev.had = 13
    /\ bytes = <<>>

\* The classes that are members of a display row: a class list that is no
\* tuple has no members.
RowClasses(row) ==
    IF row.classes.is_tuple
    THEN {row.classes.items[i] : i \in 1..Len(row.classes.items)}
    ELSE {}

\* The ids of the display rows that class c is a member of.
RowsOf(c) ==
    {annotations_row[r].id : r \in {q \in 1..Len(annotations_row) :
                                       c \in RowClasses(annotations_row[q])}}

\* C11: display-row mapping.  Every annotation the decoder puts belongs to
\* exactly one declared row: the "err" row when its class is err, the
\* "bits" row for every other class.
C11_RowMapping ==
    \A i \in 1..Len(out) :
        RowsOf(out[i].cat) = (IF out[i].cat = ann_err THEN {"err"} ELSE {"bits"})

\* The CRC-16 of the ASCII digits 1 to 9 is 0x44c2.
Crc16CheckValue == crc16(<<49, 50, 51, 52, 53, 54, 55, 56, 57>>) = \h44c2

\* The latest call decoded the 4th byte of a Read Scratchpad transaction.
StatusByte == DataByte(4) /\ bytes[1] = \haa

\* C12: the 4th byte b of a Read Scratchpad transaction with interval
\* (start, end) puts exactly two annotations, in this order: the ending
\* offset b & 0x3F over (start, split), then the data status over
\* (split, end), OK exactly when both top bits of b are clear, where
\* split = start + floor((end - start) / 4) * 3.
C12_StatusByte ==
    StatusByte =>
        LET b == ev.val
            split == ev.ss + ((ev.es - ev.ss) \div 4) * 3
        IN  out = <<[ss |-> ev.ss, es |-> split, cat |-> ann_end,
                     text |-> <<"Ending Offset: " \o DecStr(b % 64)>>],
                    [ss |-> split, es |-> ev.es, cat |-> ann_stat,
                     text |-> <<"Data status: " \o (IF b < 64 THEN "OK" ELSE "Err")>>]>>

\* C12 witness: the byte 0xC5 over (1, 8): ending offset 5 up to sample 4,
\* then status Err.
C12_Witness ==
    /\ StatusByte
    /\ ev.val = \hc5
    /\ ev.ss = 1
    /\ ev.es = 8
    /\ out[1].text = <<"Ending Offset: 5">>
    /\ out[1].es = 4
    /\ out[2].text = <<"Data status: Err">>

\* C20: status-byte interval partition.  The split lies within the byte's
\* interval, the ending offset runs from the start to the split and the
\* status from the split to the end, so the two are adjacent and cover the
\* interval; an interval shorter than 4 samples has its split at the start.
C20_SplitPartition ==
    StatusByte =>
        /\ Len(out) = 2
        /\ out[1].ss = ev.ss
        /\ out[1].ss <= out[1].es
        /\ out[1].es = out[2].ss
        /\ out[2].ss <= out[2].es
        /\ out[2].es = ev.es
        /\ ev.es - ev.ss < 4 => out[1].es = ev.ss

\* C20 witness: an interval of 3 samples, after the first sample, whose
\* ending offset annotation is empty.
C20_Witness ==
    /\ StatusByte
    /\ ev.ss > 0
    /\ ev.es = ev.ss + 3
    /\ Len(out) = 2
    /\ out[1].ss = out[1].es
    /\ out[2].ss = ev.ss

\* The latest call decoded the n-th byte of a transaction with opcode op.
FieldByte(op, n) == DataByte(n) /\ bytes[1] = op

\* The text of the authorization pattern of the current transaction.
AuthText ==
    "Authorization pattern (TA1, TA2, E/S): "
        \o FormatHexPrefixed(bytes[2]) \o ", "
        \o FormatHexPrefixed(bytes[3]) \o ", "
        \o FormatHexPrefixed(bytes[4])

\* C13 as stated: the 4th byte of a Copy Scratchpad transaction puts exactly
\* one annotation, of a class of its own that is not the data class, listing
\* bytes[1:4] from the start of the 2nd byte's event to the end of the 4th
\* byte's event.
C13_AsStated ==
    FieldByte(\h99, 4) =>
        /\ Len(out) = 1
        /\ out[1].cat # ann_data
        /\ out[1].text = <<AuthText>>
        /\ out[1].ss = starts[2]
        /\ out[1].es = ev.es

\* C13: in a transaction with opcode 0x99 the 2nd and 3rd bytes put nothing
\* and the 4th byte puts exactly one annotation, of the data class (class 0;
\* the decoder declares no class for the authorization pattern), with the
\* text "Authorization pattern (TA1, TA2, E/S): " followed by bytes[1:4] as
\* three 0x-prefixed values, from the start of the 2nd byte's event to the
\* end of the 4th byte's event.
C13_AuthPattern ==
    /\ (FieldByte(\h99, 2) \/ FieldByte(\h99, 3)) => out = <<>>
    /\ FieldByte(\h99, 4) =>
          out = <<[ss |-> starts[2], es |-> ev.es, cat |-> ann_data,
                   text |-> <<AuthText>>]>>

\* C13 witness: the pattern 0x10, 0x20, 0x10 put as data over an interval
\* that begins before the 4th byte's event.
C13_Witness ==
    /\ FieldByte(\h99, 4)
    /\ Len(out) = 1
    /\ out[1].cat = ann_data
    /\ out[1].text = <<"Authorization pattern (TA1, TA2, E/S): 0x10, 0x20, 0x10">>
    /\ out[1].ss < ev.ss

\* The text of a password annotation listing bytes first..last, counted
\* from 1.
PasswordText(label, first, last) ==
    label \o Join(" ", [i \in 1..(last - first + 1) |->
                            FormatHex(bytes[first + i - 1], 2)])

\* The annotations of class pwd put so far in the current transaction.
PasswordsPut == {i \in 1..Len(log) : log[i].cat = ann_pwd}

\* C14: a 0x99 transaction puts its one password annotation at byte 12,
\* listing the 8 bytes bytes[4:12] from the 5th byte's start to the 12th
\* byte's end; a 0x69 transaction puts its one password annotation at byte
\* 11, listing the 8 bytes bytes[3:11] from the 4th byte's start to the 11th
\* byte's end; the password bytes before the last put nothing, and no
\* transaction ever holds more than one password annotation.
C14_PasswordFields ==
    /\ FieldByte(\h99, 12) =>
          out = <<[ss |-> starts[5], es |-> ev.es, cat |-> ann_pwd,
                   text |-> <<PasswordText("Full Access Password: ", 5, 12)>>]>>
    /\ FieldByte(\h69, 11) =>
          out = <<[ss |-> starts[4], es |-> ev.es, cat |-> ann_pwd,
                   text |-> <<PasswordText("Read Access Password: ", 4, 11)>>]>>
    /\ (\E n \in 5..11 : FieldByte(\h99, n)) => out = <<>>
    /\ (\E n \in 4..10 : FieldByte(\h69, n)) => out = <<>>
    /\ Cardinality(PasswordsPut) <= 1
    /\ \A i \in PasswordsPut :
          \/ bytes[1] = \h99 /\ log[i].n = 12
          \/ bytes[1] = \h69 /\ log[i].n = 11

\* C14 witness: the read access password of a 0x69 transaction, put on its
\* 11th byte over an interval that begins before that byte's event.
C14_Witness ==
    /\ FieldByte(\h69, 11)
    /\ Len(out) = 1
    /\ out[1].cat = ann_pwd
    /\ out[1].text = <<"Read Access Password: 10 55 66 77 88 99 aa bb">>
    /\ out[1].ss < ev.ss

\* C15: in a transaction whose first byte is none of 0x0F, 0xAA, 0x99, 0x69
\* every DATA event after the first puts no annotation, and the accumulator
\* still grows by one byte per DATA event: its length is the number of DATA
\* events since the last boundary, and its last byte is the event's value.
C15_NoDecomposition ==
    /\ Len(bytes) = Len(starts)
    /\ ev.kind = "DATA" =>
          /\ Len(bytes) = ev.had + 1
          /\ bytes[Len(bytes)] = ev.val
          /\ (Len(bytes) >= 2 /\ bytes[1] \notin Layouts) => out = <<>>

\* C15 witness: the 4th byte of a transaction with the unrecognized opcode
\* 0x55, and nothing put.
C15_Witness ==
    /\ DataByte(4)
    /\ bytes[1] = \h55
    /\ Len(starts) = 4
    /\ out = <<>>

\* C16: an annotation of class err is put only by the first DATA byte of a
\* transaction; a boundary event puts exactly its own annotation, of class
\* reset or rom, whatever the transaction it cuts short had accumulated, and
\* nothing for the field left incomplete.
C16_ErrorOnlyAtFirstByte ==
    /\ \A i \in 1..Len(out) : out[i].cat = ann_err => DataByte(1)
    /\ \A i \in 1..Len(log) : log[i].cat = ann_err => log[i].n = 1
    /\ ev.kind = "RESET/PRESENCE" => (Len(out) = 1 /\ out[1].cat = ann_reset)
    /\ ev.kind = "ROM" => (Len(out) = 1 /\ out[1].cat = ann_rom)
    /\ ev.kind \in Boundary => log = <<>>

\* C16 witness: a reset cut a Copy Scratchpad transaction short in the
\* middle of its password and put the reset annotation alone.
C16_Witness ==
    /\ ev.kind = "RESET/PRESENCE"
    /\ ev.layout = \h99
    /\ ev.had = 7
    /\ Len(out) = 1
    /\ out[1].cat = ann_reset

\* Family codes the decoder could hold instead of its own.
OtherFamilies == {None, \h37, \hff}

\* The latest event delivered to the decoder as it was, but holding the
\* family code fc.
WithFamily(fc) ==
    decode([Self EXCEPT !.family_code = fc], ev'.ss, ev'.es, <<ev'.kind, ev'.val>>)

\* One call of decode: a ROM event sets family_code to its low byte, a
\* RESET/PRESENCE or DATA event leaves it alone, and what a DATA event
\* puts and accumulates does not depend on the family code held.
C17_Step ==
    /\ ev'.kind = "ROM" => family_code' = ev'.val % 256
    /\ ev'.kind \in {"RESET/PRESENCE", "DATA"} => family_code' = family_code
    /\ ev'.kind = "DATA" =>
          \A fc \in OtherFamilies :
              /\ WithFamily(fc).out = out'
              /\ WithFamily(fc).bytes = bytes'
              /\ WithFamily(fc).ss = ss'
              /\ WithFamily(fc).es = es'

\* C17: family_code is None at the start and changes only at a ROM event,
\* which sets it to the low byte of its value, so it is None until the first
\* ROM event and afterwards the low byte of the most recent one, across
\* resets and DATA bytes; the annotations put for DATA events are the same
\* whatever family code the decoder holds.
C17_FamilyCodeFrame == family_code = None /\ [][C17_Step]_vars

\* C17 witness: the family code 0x37 of an earlier ROM event still held
\* when a data byte follows a reset.
C17_Witness ==
    /\ family_code = \h37
    /\ ev.kind = "DATA"
    /\ pev.kind = "RESET/PRESENCE"
    /\ Len(out) = 1

\* C18: no call of decode puts a record on the binary output, and no
\* annotation of class crc is ever put.
C18_DeadOutputs ==
    /\ binout = <<>>
    /\ \A i \in 1..Len(out) : out[i].cat # ann_crc
    /\ \A i \in 1..Len(log) : log[i].cat # ann_crc

\* C18 witness: the full access password put as an annotation and nothing
\* on the binary output.
C18_Witness ==
    /\ FieldByte(\h99, 12)
    /\ Len(out) = 1
    /\ out[1].cat = ann_pwd
    /\ binout = <<>>

\* The outcome annotations put so far in the current transaction.
OutcomesPut == {i \in 1..Len(log) : log[i].cat \in {ann_succ, ann_fail}}

\* C19: a transaction holds at most one success or fail annotation, only
\* with opcode 0x99, and it comes after the command annotation (byte 1), the
\* authorization pattern (byte 4) and the full access password (byte 12) of
\* the same transaction, in this order; every DATA byte after the 13th of a
\* 0x99 transaction puts nothing.
C19_OutcomeOrdering ==
    /\ Cardinality(OutcomesPut) <= 1
    /\ \A i \in OutcomesPut :
          /\ bytes[1] = \h99
          /\ i = 4
          /\ log[1] = [n |-> 1, cat |-> ann_cmd]
          /\ log[2] = [n |-> 4, cat |-> ann_data]
          /\ log[3] = [n |-> 12, cat |-> ann_pwd]
          /\ log[4].n = 13
    /\ (ev.kind = "DATA" /\ Len(bytes) > 13 /\ bytes[1] = \h99) => out = <<>>

\* C19 witness: the 15th byte of a failed Copy Scratchpad transaction: four
\* annotations so far, the last of them the failure, and nothing put now.
C19_Witness ==
    /\ FieldByte(\h99, 15)
    /\ Len(log) = 4
    /\ log[4] = [n |-> 13, cat |-> ann_fail]
    /\ out = <<>>

====
